---- MODULE Spec2Model ----
(***************************************************************************)
(* Model of src/bot.py: the aiogram dialogue flow of the weather bot for   *)
(* ONE conversation (the FSM storage is keyed by chat and user, so other   *)
(* conversations share nothing with it).                                   *)
(*                                                                         *)
(* A handler is a coroutine.  It runs without interruption between two     *)
(* awaits that really suspend (network I/O: a Telegram send, an HTTP       *)
(* request); awaits on the in-memory FSM storage never suspend.  Each      *)
(* handler is therefore cut at its network awaits: the action named after  *)
(* the handler is the segment that runs when the update is dispatched, the *)
(* later segments are the actions that resume it.  Sends to Telegram are   *)
(* taken to succeed (the chat transport is an external collaborator).      *)
(*                                                                         *)
(* Two specifications share the actions:                                   *)
(*   Spec       the user sends the next input after the previous handler   *)
(*              has finished (one update in flight);                       *)
(*   SpecTasks  dp.start_polling(bot) with its default handle_as_tasks:    *)
(*              every update is handled in a task of its own, so up to     *)
(*              MaxTasks handlers of the conversation are in flight.       *)
(***************************************************************************)
EXTENDS Integers, Sequences, FiniteSets, TLC

VARIABLES state, data, tasks, last, progress, credit, fresh

vars == <<state, data, tasks, last, progress, credit, fresh>>

(***************************************************************************)
(* Bounds                                                                  *)
(***************************************************************************)
\* handlers of the conversation that may be in flight together (SpecTasks)
MaxTasks == 2
\* start-route commands not yet followed by an aggregation that are counted:
\* credit = MaxCredit stands for MaxCredit or more and is no longer followed
MaxCredit == 2

(***************************************************************************)
(* Texts: a text is a sequence of one-character strings.                   *)
(***************************************************************************)
\* message.text of an update that carries no text (a photo, a sticker)
None == <<"None">>

Ws == {" ", "\t", "\n"}

CityM == <<"M">>
CityP == <<"P">>
\* " P, ,M ,,"
TxtList == <<" ", "P", ",", " ", ",", "M", " ", ",", ",">>
\* ", "  (every token empty)
TxtBlank == <<",", " ">>
\* "/x": begins with a slash, is none of the bot's commands
TxtSlash == <<"/", "x">>
CmdStart == <<"/", "s", "t", "a", "r", "t">>
CmdHelp == <<"/", "h", "e", "l", "p">>
CmdWeather == <<"/", "w", "e", "a", "t", "h", "e", "r">>

Texts == {CityM, CityP, TxtList, TxtBlank, TxtSlash, CmdStart, CmdHelp, CmdWeather}

CallbackData == {"add_midpoints", "skip_midpoints", "3_days", "5_days"}

\* inbound updates of the conversation: a message (its text, or None) or a
\* press of one of the bot's inline buttons
Updates ==
  [kind : {"message"}, text : Texts \cup {None}, data : {""}]
    \cup [kind : {"callback_query"}, text : {None}, data : CallbackData]

(***************************************************************************)
(* str helpers, computed as Python computes them                           *)
(***************************************************************************)
RECURSIVE lstrip(_)
lstrip(s) ==
  IF s # <<>> /\ Head(s) \in Ws THEN lstrip(Tail(s)) ELSE s

RECURSIVE rstrip(_)
rstrip(s) ==
  IF s # <<>> /\ s[Len(s)] \in Ws THEN rstrip(SubSeq(s, 1, Len(s) - 1)) ELSE s

strip(s) == rstrip(lstrip(s))

\* s.split(sep): the pieces between the separators, empty pieces kept
RECURSIVE split_acc(_, _, _)
split_acc(s, sep, cur) ==
  IF s = <<>> THEN <<cur>>
  ELSE IF Head(s) = sep THEN <<cur>> \o split_acc(Tail(s), sep, <<>>)
  ELSE split_acc(Tail(s), sep, Append(cur, Head(s)))

split(s, sep) == split_acc(s, sep, <<>>)

\* the characters of s before the first one in stop
RECURSIVE take_until(_, _)
take_until(s, stop) ==
  IF s = <<>> \/ Head(s) \in stop THEN <<>>
  ELSE <<Head(s)>> \o take_until(Tail(s), stop)

(***************************************************************************)
(* The dispatcher: filters and registration order                          *)
(***************************************************************************)
\* aiogram's Command(name) filter on a message text: the first word of the
\* text is the prefix "/" followed by name (an "@mention" after it is cut)
Command(name, text) ==
  /\ text # None
  /\ LET word == take_until(lstrip(text), Ws)
     IN /\ word # <<>>
        /\ Head(word) = "/"
        /\ take_until(Tail(word), {"@"}) = name

\* mutant: the state handlers registered before the command handlers
MessageHandlers_StateFirst ==
  <<"handle_start_city", "handle_end_city", "handle_midpoints",
    "start_command", "help_command", "weather_command">>

\* the handlers in the order the decorators register them
MessageHandlers ==
  <<"start_command", "help_command", "weather_command",
    "handle_start_city", "handle_end_city", "handle_midpoints">>

CallbackHandlers ==
  <<"add_midpoints", "skip_midpoints", "forecast_days_selected">>

\* mutant: forecast_days_selected registered without its state filter
Matches_LengthAnyState(h, u, st) ==
  CASE h = "start_command" -> Command(Tail(CmdStart), u.text)
    [] h = "help_command" -> Command(Tail(CmdHelp), u.text)
    [] h = "weather_command" -> Command(Tail(CmdWeather), u.text)
    [] h = "handle_start_city" -> st = "input_start"
    [] h = "handle_end_city" -> st = "input_end"
    [] h = "handle_midpoints" -> st = "input_midpoints"
    [] h = "add_midpoints" -> st = "input_midpoints" /\ u.data = "add_midpoints"
    [] h = "skip_midpoints" -> st = "input_midpoints" /\ u.data = "skip_midpoints"
    [] h = "forecast_days_selected" -> u.data \in {"3_days", "5_days"}

\* the filters of handler h pass for update u in FSM state st
Matches(h, u, st) ==
  CASE h = "start_command" -> Command(Tail(CmdStart), u.text)
    [] h = "help_command" -> Command(Tail(CmdHelp), u.text)
    [] h = "weather_command" -> Command(Tail(CmdWeather), u.text)
    [] h = "handle_start_city" -> st = "input_start"
    [] h = "handle_end_city" -> st = "input_end"
    [] h = "handle_midpoints" -> st = "input_midpoints"
    [] h = "add_midpoints" -> st = "input_midpoints" /\ u.data = "add_midpoints"
    [] h = "skip_midpoints" -> st = "input_midpoints" /\ u.data = "skip_midpoints"
    [] h = "forecast_days_selected" ->
         st = "choose_forecast" /\ u.data \in {"3_days", "5_days"}

\* the first handler of hs, in order, whose filters pass
RECURSIVE FirstMatch(_, _, _)
FirstMatch(hs, u, st) ==
  IF hs = <<>> THEN "unhandled"
  ELSE IF Matches(Head(hs), u, st) THEN Head(hs)
  ELSE FirstMatch(Tail(hs), u, st)

\* the handler the dispatcher calls for update u in FSM state st
Handler(u, st) ==
  IF u.kind = "message" THEN FirstMatch(MessageHandlers, u, st)
  ELSE FirstMatch(CallbackHandlers, u, st)

(***************************************************************************)
(* Session storage (FSMContext): the state and the data dict.  A key of    *)
(* the dict is <<>> when absent and <<value>> when present.                *)
(***************************************************************************)
States == {"None", "input_start", "input_end", "input_midpoints", "choose_forecast"}

EmptyData == [start_city |-> <<>>, end_city |-> <<>>, midpoints |-> <<>>, days |-> <<>>]

(***************************************************************************)
(* Handler tasks                                                           *)
(***************************************************************************)
Slots == 1 .. MaxTasks

Idle ==
  [h |-> "idle", pc |-> "idle", text |-> None, cities |-> <<>>, days |-> 0,
   i |-> 0, forecasts |-> <<>>, requests |-> <<>>, sent |-> <<>>, report |-> <<>>]

NewTask(h, pc, text, sent) ==
  [Idle EXCEPT !.h = h, !.pc = pc, !.text = text, !.sent = sent]

Quiescent == \A t \in Slots : tasks[t] = Idle

\* the slot a new task takes
FreeSlot == CHOOSE t \in Slots : tasks[t] = Idle /\ \A t2 \in 1 .. (t - 1) : tasks[t2] # Idle

\* polling hands over the next update: at once (handle_as_tasks) or, for the
\* user who waits for the bot's answer, when no handler is in flight
Accepts(serial) ==
  IF serial THEN Quiescent ELSE \E t \in Slots : tasks[t] = Idle

Finished(h, raised, sent) == [h |-> h, raised |-> raised, sent |-> sent]

(***************************************************************************)
(* Weather client and aggregator (pure parts)                              *)
(***************************************************************************)
\* the forecast endpoint is .../daily/5day/...
ProviderDays == 5
\* a provider answer shorter than the 5 days
ShortDays == 2

Digits == <<"1", "2", "3", "4", "5", "6", "7", "8", "9">>

\* the k-th entry of the provider's DailyForecasts
ProviderEntry(k) ==
  [Date |-> <<"d", Digits[k], "T", "0", "7">>, Minimum |-> k, Maximum |-> k + 1,
   IconPhrase |-> "sun"]

ProviderForecast(n) == [k \in 1 .. n |-> ProviderEntry(k)]

\* answers of the city search: found (first candidate wins), empty list,
\* non-success status, and a failure of the request or of its payload
LookupResponses ==
  { [error |-> FALSE, status |-> 200, data |-> <<"key1", "key2">>],
    [error |-> FALSE, status |-> 200, data |-> <<>>],
    [error |-> FALSE, status |-> 503, data |-> <<>>],
    [error |-> TRUE, status |-> 200, data |-> <<>>] }

\* answers of the forecast request
ForecastResponses ==
  { [error |-> FALSE, status |-> 200, n |-> ProviderDays],
    [error |-> FALSE, status |-> 200, n |-> ShortDays],
    [error |-> FALSE, status |-> 503, n |-> 0],
    [error |-> TRUE, status |-> 200, n |-> 0] }

NoKey == ""

\* fetch_location_key: [raised, key]; a city of None cannot be put in the
\* query string and raises before any answer
fetch_location_key(city, resp) ==
  IF city = None \/ resp.error THEN [raised |-> TRUE, key |-> NoKey]
  ELSE IF resp.status # 200 THEN [raised |-> FALSE, key |-> NoKey]
  ELSE [raised |-> FALSE, key |-> IF resp.data # <<>> THEN resp.data[1] ELSE NoKey]

\* mutant: a non-success status raises (response.raise_for_status())
fetch_weather_forecast_raises(resp) ==
  IF resp.error \/ resp.status # 200 THEN [raised |-> TRUE, data |-> <<>>]
  ELSE [raised |-> FALSE, data |-> ProviderForecast(resp.n)]

\* fetch_weather_forecast: [raised, data]
fetch_weather_forecast(resp) ==
  IF resp.error THEN [raised |-> TRUE, data |-> <<>>]
  ELSE IF resp.status # 200 THEN [raised |-> FALSE, data |-> <<>>]
  ELSE [raised |-> FALSE, data |-> ProviderForecast(resp.n)]

\* mutant: the list is not cut
Truncate_Whole(forecast_data, days) == forecast_data

\* forecast_data[:days]
Truncate(forecast_data, days) ==
  SubSeq(forecast_data, 1, IF Len(forecast_data) < days THEN Len(forecast_data) ELSE days)

\* one entry of city_forecast
DayForecast(entry) ==
  [date |-> take_until(entry.Date, {"T"}),
   temperature |-> <<entry.Minimum, entry.Maximum>>,
   conditions |-> entry.IconPhrase]

CityForecast(forecast_data, days) ==
  LET cut == Truncate(forecast_data, days)
  IN [k \in 1 .. Len(cut) |-> DayForecast(cut[k])]

NoData(city) == [location |-> city, nodata |-> TRUE, forecast |-> <<>>]

WithForecast(city, city_forecast) ==
  [location |-> city, nodata |-> FALSE, forecast |-> city_forecast]

\* mutant: the end city put before the midpoints
RouteOf_EndBeforeMidpoints(user_data) ==
  <<user_data.start_city[1], user_data.end_city[1]>>
    \o (IF user_data.midpoints = <<>> THEN <<>> ELSE user_data.midpoints[1])

(***************************************************************************)
(* Report formatter: the text is the sequence of its lines, each ended by  *)
(* a line break in the code.                                               *)
(***************************************************************************)
NoDay == [date |-> <<>>, temperature |-> <<0, 0>>, conditions |-> ""]

\* "<header> {location}:"
HeaderLine(city) == [kind |-> "header", city |-> city, day |-> NoDay]
\* the fixed 'data unavailable' line
UnavailableLine == [kind |-> "unavailable", city |-> <<>>, day |-> NoDay]
\* "{date}: {temperature}, {conditions}"
DayLine(day) == [kind |-> "day", city |-> <<>>, day |-> day]
BlankLine == [kind |-> "blank", city |-> <<>>, day |-> NoDay]

\* the lines one pass of the loop adds for city_data
\* mutant: no "\n" after a city's lines
CityBlock_Joined(city_data) ==
  <<HeaderLine(city_data.location)>>
    \o (IF city_data.nodata THEN <<UnavailableLine, BlankLine>>
        ELSE [k \in 1 .. Len(city_data.forecast) |-> DayLine(city_data.forecast[k])])

CityBlock(city_data) ==
  <<HeaderLine(city_data.location)>>
    \o (IF city_data.nodata THEN <<UnavailableLine, BlankLine>>
        ELSE [k \in 1 .. Len(city_data.forecast) |-> DayLine(city_data.forecast[k])])
    \o <<BlankLine>>

RECURSIVE format_forecast(_)
format_forecast(forecast_data) ==
  IF forecast_data = <<>> THEN <<>>
  ELSE CityBlock(Head(forecast_data)) \o format_forecast(Tail(forecast_data))

\* cities = [start_city] + midpoints + [end_city] of forecast_days_selected
RouteOf(user_data) ==
  <<user_data.start_city[1]>>
    \o (IF user_data.midpoints = <<>> THEN <<>> ELSE user_data.midpoints[1])
    \o <<user_data.end_city[1]>>

\* mutant: the empty tokens kept
Midpoints_KeepsEmpty(text) ==
  LET parts == split(text, ",")
  IN [k \in 1 .. Len(parts) |-> strip(parts[k])]

\* midpoints of handle_midpoints
Midpoints(text) ==
  LET parts == split(text, ",")
  IN SelectSeq([k \in 1 .. Len(parts) |-> strip(parts[k])], LAMBDA c : c # <<>>)

(***************************************************************************)
(* The monitor of a valid flow: progress = k when the inputs since the     *)
(* session was last IDLE are the first k inputs of a valid flow, each sent *)
(* after the previous handler had finished; -1 otherwise.                  *)
(***************************************************************************)
PlainText(u) ==
  /\ u.kind = "message"
  /\ u.text # None
  /\ \A h \in {"start_command", "help_command", "weather_command"} : ~Matches(h, u, "None")

ValidInput(k, u) ==
  CASE k = 1 -> u.kind = "message" /\ Command(Tail(CmdWeather), u.text)
    [] k \in {2, 3} -> PlainText(u)
    [] k = 4 -> PlainText(u) \/ u.data = "skip_midpoints"
    [] k = 5 -> u.data \in {"3_days", "5_days"}
    [] OTHER -> FALSE

Advance(u) ==
  IF Quiescent /\ state = "None" /\ ValidInput(1, u) THEN 1
  ELSE IF Quiescent /\ progress >= 1 /\ ValidInput(progress + 1, u) THEN progress + 1
  ELSE -1

(***************************************************************************)
(* Two counts kept beside the session.  credit: the start-route commands   *)
(* received minus the aggregator calls made, counted up to MaxCredit and   *)
(* down to -1.  fresh: the keys of data written since the last start-route *)
(* command was received.                                                   *)
(***************************************************************************)
\* the key of data the handler h writes when it is dispatched
Written(h) ==
  CASE h = "handle_start_city" -> {"start_city"}
    [] h \in {"skip_midpoints", "handle_midpoints"} -> {"midpoints"}
    [] h = "handle_end_city" -> {"end_city"}
    [] OTHER -> {}

\* the handler h is dispatched and does not raise
Count(h) ==
  /\ credit' = IF h = "weather_command" /\ credit < MaxCredit THEN credit + 1
               ELSE IF h = "forecast_days_selected" /\ credit > -1 /\ credit < MaxCredit
               THEN credit - 1
               ELSE credit
  /\ fresh' = IF h = "weather_command" THEN {} ELSE fresh \cup Written(h)

(***************************************************************************)
(* Initial state: a conversation the storage knows nothing about           *)
(***************************************************************************)
Init ==
  /\ state = "None"
  /\ data = EmptyData
  /\ tasks = [t \in Slots |-> Idle]
  /\ last = Finished("none", FALSE, <<>>)
  /\ progress = 0
  /\ credit = 0
  /\ fresh = {}

\* the handler of u starts as a task suspended at pc
Start(u, h, pc, sent) ==
  /\ tasks' = [tasks EXCEPT ![FreeSlot] = NewTask(h, pc, u.text, sent)]
  /\ progress' = Advance(u)
  /\ Count(h)
  /\ UNCHANGED last

\* the handler of u runs to its end without suspending on the session
Whole(u, h, raised, sent) ==
  /\ last' = Finished(h, raised, sent)
  /\ progress' = Advance(u)
  /\ UNCHANGED <<tasks, credit, fresh>>

\* task t returns
Return(t) ==
  /\ tasks' = [tasks EXCEPT ![t] = Idle]
  /\ last' = Finished(tasks[t].h, FALSE, tasks[t].sent)
  /\ UNCHANGED <<progress, credit>>

At(t, h, pc) == tasks[t].h = h /\ tasks[t].pc = pc

(***************************************************************************)
(* Handlers                                                                *)
(***************************************************************************)
\* an update no handler's filters accept
unhandled(u, serial) ==
  /\ Accepts(serial)
  /\ Handler(u, state) = "unhandled"
  /\ Whole(u, "unhandled", FALSE, <<>>)
  /\ UNCHANGED <<state, data>>

start_command(u, serial) ==
  /\ Accepts(serial)
  /\ Handler(u, state) = "start_command"
  /\ Whole(u, "start_command", FALSE, <<"greeting">>)
  /\ UNCHANGED <<state, data>>

help_command(u, serial) ==
  /\ Accepts(serial)
  /\ Handler(u, state) = "help_command"
  /\ Whole(u, "help_command", FALSE, <<"help">>)
  /\ UNCHANGED <<state, data>>

\* await message.answer(...)
weather_command(u, serial) ==
  /\ Accepts(serial)
  /\ Handler(u, state) = "weather_command"
  /\ Start(u, "weather_command", "set_state", <<"ask_start">>)
  /\ UNCHANGED <<state, data>>

\* await state.set_state(WeatherFlow.input_start)
weather_command_set_state(t) ==
  /\ At(t, "weather_command", "set_state")
  /\ state' = "input_start"
  /\ Return(t)
  /\ UNCHANGED <<data, fresh>>

\* mutant: the text stripped before it is stored
handle_start_city_strips(u, serial) ==
  /\ Accepts(serial)
  /\ Handler(u, state) = "handle_start_city"
  /\ data' = [data EXCEPT !.start_city = <<strip(u.text)>>]
  /\ Start(u, "handle_start_city", "set_state", <<"ask_end">>)
  /\ UNCHANGED state

handle_start_city(u, serial) ==
  /\ Accepts(serial)
  /\ Handler(u, state) = "handle_start_city"
  /\ data' = [data EXCEPT !.start_city = <<u.text>>]
  /\ Start(u, "handle_start_city", "set_state", <<"ask_end">>)
  /\ UNCHANGED state

handle_start_city_set_state(t) ==
  /\ At(t, "handle_start_city", "set_state")
  /\ state' = "input_end"
  /\ Return(t)
  /\ UNCHANGED <<data, fresh>>

handle_end_city(u, serial) ==
  /\ Accepts(serial)
  /\ Handler(u, state) = "handle_end_city"
  /\ data' = [data EXCEPT !.end_city = <<u.text>>]
  /\ Start(u, "handle_end_city", "set_state", <<"ask_midpoints">>)
  /\ UNCHANGED state

\* mutant: the forecast-length state set in place of the midpoint state
handle_end_city_set_state_skips(t) ==
  /\ At(t, "handle_end_city", "set_state")
  /\ state' = "choose_forecast"
  /\ Return(t)
  /\ UNCHANGED <<data, fresh>>

handle_end_city_set_state(t) ==
  /\ At(t, "handle_end_city", "set_state")
  /\ state' = "input_midpoints"
  /\ Return(t)
  /\ UNCHANGED <<data, fresh>>

\* mutant: the forecast-length prompt follows the press of 'add'
add_midpoints_advances(u, serial) ==
  /\ Accepts(serial)
  /\ Handler(u, state) = "add_midpoints"
  /\ Whole(u, "add_midpoints", FALSE, <<"ask_midpoint_list">>)
  /\ state' = "choose_forecast"
  /\ UNCHANGED data

add_midpoints(u, serial) ==
  /\ Accepts(serial)
  /\ Handler(u, state) = "add_midpoints"
  /\ Whole(u, "add_midpoints", FALSE, <<"ask_midpoint_list">>)
  /\ UNCHANGED <<state, data>>

\* mutant: the midpoints of the session left as they are
skip_midpoints_keeps(u, serial) ==
  /\ Accepts(serial)
  /\ Handler(u, state) = "skip_midpoints"
  /\ Start(u, "skip_midpoints", "request_forecast_days", <<"no_midpoints", "ask_days">>)
  /\ UNCHANGED <<state, data>>

skip_midpoints(u, serial) ==
  /\ Accepts(serial)
  /\ Handler(u, state) = "skip_midpoints"
  /\ data' = [data EXCEPT !.midpoints = << <<>> >>]
  /\ Start(u, "skip_midpoints", "request_forecast_days", <<"no_midpoints", "ask_days">>)
  /\ UNCHANGED state

\* message.text.split(",") raises AttributeError for a message without text:
\* the handler ends there, the dispatcher logs the error
handle_midpoints(u, serial) ==
  /\ Accepts(serial)
  /\ Handler(u, state) = "handle_midpoints"
  /\ IF u.text = None
     THEN /\ Whole(u, "handle_midpoints", TRUE, <<>>)
          /\ UNCHANGED data
     ELSE /\ data' = [data EXCEPT !.midpoints = <<Midpoints(u.text)>>]
          /\ Start(u, "handle_midpoints", "request_forecast_days", <<"ask_days">>)
  /\ UNCHANGED state

\* the end of request_forecast_days, called by skip_midpoints and
\* handle_midpoints: await state.set_state(WeatherFlow.choose_forecast)
request_forecast_days(t) ==
  /\ tasks[t].pc = "request_forecast_days"
  /\ state' = "choose_forecast"
  /\ Return(t)
  /\ UNCHANGED <<data, fresh>>

\* up to the first request of generate_forecast; user_data["start_city"] and
\* user_data["end_city"] raise KeyError, outside the try, for a missing key
forecast_days_selected(u, serial) ==
  /\ Accepts(serial)
  /\ Handler(u, state) = "forecast_days_selected"
  /\ LET days == IF u.data = "3_days" THEN 3 ELSE 5
         user_data == [data EXCEPT !.days = <<days>>]
     IN /\ data' = user_data
        /\ IF user_data.start_city = <<>> \/ user_data.end_city = <<>>
           THEN Whole(u, "forecast_days_selected", TRUE, <<>>)
           ELSE /\ tasks' = [tasks EXCEPT ![FreeSlot] =
                       [NewTask("forecast_days_selected", "location", None, <<>>)
                          EXCEPT !.cities = RouteOf(user_data), !.days = days, !.i = 1,
                                 !.requests = << <<"location", 1>> >>]]
                /\ progress' = Advance(u)
                /\ Count("forecast_days_selected")
                /\ UNCHANGED last
  /\ UNCHANGED state

\* mutant: the loop goes back to the city it has just done
AfterCity_SameCity(tk, result) ==
  IF tk.i < Len(tk.cities)
  THEN [tk EXCEPT !.pc = "location"]
  ELSE [tk EXCEPT !.forecasts = Append(@, result), !.pc = "answer", !.sent = <<"report">>,
                  !.report = format_forecast(Append(tk.forecasts, result))]

\* generate_forecast after city i: the next city's lookup, or the end of the
\* loop, format_forecast and the send of the report
AfterCity(tk, result) ==
  IF tk.i < Len(tk.cities)
  THEN [tk EXCEPT !.forecasts = Append(@, result), !.i = @ + 1, !.pc = "location",
                  !.requests = Append(@, <<"location", tk.i + 1>>)]
  ELSE [tk EXCEPT !.forecasts = Append(@, result), !.pc = "answer", !.sent = <<"report">>,
                  !.report = format_forecast(Append(tk.forecasts, result))]

\* an exception inside the try: the except branch sends the failure notice
Except(tk) == [tk EXCEPT !.pc = "except", !.sent = <<"failure">>]

\* mutant: break in place of continue after the 'no data' marker
generate_forecast_location_breaks(t, resp) ==
  /\ At(t, "forecast_days_selected", "location")
  /\ LET tk == tasks[t]
         city == tk.cities[tk.i]
         loc == fetch_location_key(city, resp)
     IN tasks' = [tasks EXCEPT ![t] =
          IF loc.raised THEN Except(tk)
          ELSE IF loc.key = NoKey
          THEN [tk EXCEPT !.forecasts = Append(@, NoData(city)), !.pc = "answer",
                          !.sent = <<"report">>]
          ELSE [tk EXCEPT !.pc = "forecast",
                          !.requests = Append(@, <<"forecast", tk.i>>)]]
  /\ UNCHANGED <<state, data, last, progress, credit, fresh>>

\* generate_forecast resumes with the answer to fetch_location_key(city)
generate_forecast_location(t, resp) ==
  /\ At(t, "forecast_days_selected", "location")
  /\ LET tk == tasks[t]
         city == tk.cities[tk.i]
         loc == fetch_location_key(city, resp)
     IN tasks' = [tasks EXCEPT ![t] =
          IF loc.raised THEN Except(tk)
          ELSE IF loc.key = NoKey THEN AfterCity(tk, NoData(city))
          ELSE [tk EXCEPT !.pc = "forecast",
                          !.requests = Append(@, <<"forecast", tk.i>>)]]
  /\ UNCHANGED <<state, data, last, progress, credit, fresh>>

\* mutant: a forecast request answered with a non-success status is repeated
generate_forecast_weather_retries(t, resp) ==
  /\ At(t, "forecast_days_selected", "forecast")
  /\ LET tk == tasks[t]
         got == fetch_weather_forecast(resp)
     IN tasks' = [tasks EXCEPT ![t] =
          IF got.raised THEN Except(tk)
          ELSE IF resp.status # 200
          THEN [tk EXCEPT !.requests = Append(@, <<"forecast", tk.i>>)]
          ELSE AfterCity(tk, WithForecast(tk.cities[tk.i], CityForecast(got.data, tk.days)))]
  /\ UNCHANGED <<state, data, last, progress, credit, fresh>>

\* generate_forecast resumes with the answer to fetch_weather_forecast(loc_key)
generate_forecast_weather(t, resp) ==
  /\ At(t, "forecast_days_selected", "forecast")
  /\ LET tk == tasks[t]
         got == fetch_weather_forecast(resp)
     IN tasks' = [tasks EXCEPT ![t] =
          IF got.raised THEN Except(tk)
          ELSE AfterCity(tk, WithForecast(tk.cities[tk.i], CityForecast(got.data, tk.days)))]
  /\ UNCHANGED <<state, data, last, progress, credit, fresh>>

\* the report is sent: await state.clear()
forecast_days_selected_answer(t) ==
  /\ At(t, "forecast_days_selected", "answer")
  /\ state' = "None"
  /\ data' = EmptyData
  /\ fresh' = {}
  /\ Return(t)

\* mutant: state.clear() inside the try, skipped by the except branch
forecast_days_selected_except_keeps(t) ==
  /\ At(t, "forecast_days_selected", "except")
  /\ Return(t)
  /\ UNCHANGED <<state, data, fresh>>

\* the failure notice is sent: await state.clear()
forecast_days_selected_except(t) ==
  /\ At(t, "forecast_days_selected", "except")
  /\ state' = "None"
  /\ data' = EmptyData
  /\ fresh' = {}
  /\ Return(t)

(***************************************************************************)
(* Specifications                                                          *)
(***************************************************************************)
Dispatch(u, serial) ==
  \/ unhandled(u, serial)
  \/ start_command(u, serial)
  \/ help_command(u, serial)
  \/ weather_command(u, serial)
  \/ handle_start_city(u, serial)
  \/ handle_end_city(u, serial)
  \/ add_midpoints(u, serial)
  \/ skip_midpoints(u, serial)
  \/ handle_midpoints(u, serial)
  \/ forecast_days_selected(u, serial)

Resume(t, lookups, forecasts) ==
  \/ weather_command_set_state(t)
  \/ handle_start_city_set_state(t)
  \/ handle_end_city_set_state(t)
  \/ request_forecast_days(t)
  \/ \E resp \in lookups : generate_forecast_location(t, resp)
  \/ \E resp \in forecasts : generate_forecast_weather(t, resp)
  \/ forecast_days_selected_answer(t)
  \/ forecast_days_selected_except(t)

Next ==
  \/ \E u \in Updates : Dispatch(u, TRUE)
  \/ \E t \in Slots : Resume(t, LookupResponses, ForecastResponses)

\* the user who waits for the bot's answer before the next input
Spec == Init /\ [][Next]_vars

\* every network request returns, with success or failure: a handler that
\* waits for an answer is resumed
SpecFair ==
  Spec /\ WF_vars(\E t \in Slots : Resume(t, LookupResponses, ForecastResponses))

\* the inputs and provider answers followed when handlers overlap
TaskUpdates ==
  {u \in Updates :
     \/ u.data \in {"add_midpoints", "skip_midpoints", "3_days"}
     \/ u.text \in {CityM, CmdStart, CmdHelp, CmdWeather}}

TaskLookups == {r \in LookupResponses : r.error \/ r.data # <<>>}

TaskForecasts == {r \in ForecastResponses : r.status = 200 /\ r.n = ProviderDays}

NextTasks ==
  \/ \E u \in TaskUpdates : Dispatch(u, FALSE)
  \/ \E t \in Slots : Resume(t, TaskLookups, TaskForecasts)

\* dp.start_polling(bot): every update is handled in its own task
SpecTasks == Init /\ [][NextTasks]_vars

(***************************************************************************)
(* Properties                                                              *)
(***************************************************************************)
Running(t, h) == tasks[t].h = h
Returns(t, h) == tasks[t].h = h /\ tasks'[t] = Idle

\* IDLE, AWAIT_START_CITY, AWAIT_END_CITY, AWAIT_MIDPOINTS,
\* AWAIT_FORECAST_LENGTH, IDLE in the code's state names
Order == <<"None", "input_start", "input_end", "input_midpoints", "choose_forecast", "None">>

\* C1: after the first k inputs of a valid flow (start-route command, start
\* city, end city, skip or midpoint text, forecast length) the session is in
\* the k-th state after IDLE of the linear order, and every change of state
\* during a valid flow goes from one state of the order to the next one.
C1_ValidFlowOrder ==
  /\ [](Quiescent /\ progress >= 0 => state = Order[progress + 1])
  /\ [][progress' >= 1 /\ state' # state
          => state = Order[progress'] /\ state' = Order[progress' + 1]]_vars

C1_Witness ==
  /\ Quiescent
  /\ progress = 5
  /\ state = "None"
  /\ last.h = "forecast_days_selected"

\* C2: a forecast-length choice accepted in AWAIT_FORECAST_LENGTH starts the
\* aggregation, and when its handler returns the session is IDLE with no
\* data, and the handler has sent exactly one message: the report if the
\* aggregation produced a result for every city, the failure notice if not.
C2_ResetRegardless ==
  [][/\ \A u \in Updates : forecast_days_selected(u, TRUE)
          => \E t \in Slots : Running(t, "idle") /\ Running(t, "forecast_days_selected")'
     /\ \A t \in Slots : Returns(t, "forecast_days_selected")
          => /\ state' = "None"
             /\ data' = EmptyData
             /\ last'.raised = FALSE
             /\ last'.sent =
                  IF Len(tasks[t].forecasts) = Len(tasks[t].cities)
                  THEN <<"report">> ELSE <<"failure">>]_vars

C2_Witness ==
  /\ last = Finished("forecast_days_selected", FALSE, <<"failure">>)
  /\ state = "None"
  /\ data = EmptyData

\* C3: the /weather command is taken by weather_command in every state: it
\* sends the start-city prompt, stores nothing, and moves the session to
\* AWAIT_START_CITY.
C3_WeatherAnyState ==
  [][/\ \A u \in Updates :
          u.kind = "message" /\ Command(Tail(CmdWeather), u.text) /\ Dispatch(u, TRUE)
            => /\ data' = data
               /\ \E t \in Slots :
                    /\ Running(t, "idle")
                    /\ tasks'[t].h = "weather_command"
                    /\ tasks'[t].sent = <<"ask_start">>
     /\ \A t \in Slots : Returns(t, "weather_command")
          => state' = "input_start" /\ data' = data]_vars

C3_Witness ==
  /\ last.h = "weather_command"
  /\ state = "input_start"
  /\ data.midpoints # <<>>

\* C4: while a forecast-length step is between its start and its final
\* session clear, no other handler of the conversation is in flight.
C4_StepRunsAlone ==
  \A t \in Slots : Running(t, "forecast_days_selected")
    => \A t2 \in Slots \ {t} : tasks[t2] = Idle

ResolutionFails(resp) == ~resp.error /\ (resp.status # 200 \/ resp.data = <<>>)

Smaller(a, b) == IF a < b THEN a ELSE b

\* C5: the aggregator's results are one per city, in the order of the
\* cities, and complete when the report is sent; a result, once appended, is
\* never changed; a city whose resolution fails gets the 'no data' marker
\* and the loop goes on with the next city; a resolved city's result is
\* decided by its own forecast answer and the day count alone.
C5_FailureIsolation ==
  /\ [](\A t \in Slots : Running(t, "forecast_days_selected")
          => /\ Len(tasks[t].forecasts) <= Len(tasks[t].cities)
             /\ \A k \in 1 .. Len(tasks[t].forecasts) :
                  tasks[t].forecasts[k].location = tasks[t].cities[k]
             /\ tasks[t].pc = "answer" => Len(tasks[t].forecasts) = Len(tasks[t].cities))
  /\ [][\A t \in Slots :
          Running(t, "forecast_days_selected") /\ Running(t, "forecast_days_selected")'
            => LET old == tasks[t].forecasts
                   new == tasks'[t].forecasts
                   city == tasks[t].cities[tasks[t].i]
               IN /\ Len(old) <= Len(new)
                  /\ SubSeq(new, 1, Len(old)) = old
                  /\ \A resp \in LookupResponses :
                       /\ generate_forecast_location(t, resp)
                       /\ ResolutionFails(resp)
                       /\ city # None
                       => /\ new = Append(old, [location |-> city, nodata |-> TRUE,
                                                forecast |-> <<>>])
                          /\ tasks'[t].pc \in {"location", "answer"}
                  /\ \A resp \in ForecastResponses :
                       generate_forecast_weather(t, resp) /\ ~resp.error
                       => /\ Len(new) = Len(old) + 1
                          /\ new[Len(new)].location = city
                          /\ ~new[Len(new)].nodata
                          /\ Len(new[Len(new)].forecast) =
                               IF resp.status = 200 THEN Smaller(resp.n, tasks[t].days) ELSE 0
                          /\ tasks'[t].pc \in {"location", "answer"}]_vars

\* ["ValidCity", "GarbageCity123"]: a full forecast, then the marker
C5_Witness ==
  \E t \in Slots :
    /\ At(t, "forecast_days_selected", "answer")
    /\ Len(tasks[t].forecasts) = 2
    /\ ~tasks[t].forecasts[1].nodata
    /\ Len(tasks[t].forecasts[1].forecast) = tasks[t].days
    /\ tasks[t].forecasts[2].nodata

\* C6: the route a forecast-length step aggregates over starts with the
\* stored start city, ends with the stored end city, and holds the stored
\* midpoints, all of them and in their order, in between.
C6_RouteAssembly ==
  \A t \in Slots : Running(t, "forecast_days_selected")
    => LET cities == tasks[t].cities
           mids == data.midpoints[1]
       IN /\ data.start_city # <<>> /\ data.end_city # <<>> /\ data.midpoints # <<>>
          /\ Len(cities) = Len(mids) + 2
          /\ Len(cities) >= 2
          /\ cities[1] = data.start_city[1]
          /\ cities[Len(cities)] = data.end_city[1]
          /\ \A k \in 1 .. Len(mids) : cities[k + 1] = mids[k]

\* start M, midpoints P and M, end M: the duplicates stay
C6_Witness ==
  \E t \in Slots :
    /\ Running(t, "forecast_days_selected")
    /\ tasks[t].cities = <<CityM, CityP, CityM, CityM>>

\* the positions of the commas of text, with 0 and Len(text) + 1 around them
Cuts(text) == {0, Len(text) + 1} \cup {k \in 1 .. Len(text) : text[k] = ","}

\* the piece of text that starts after cut c: up to the next cut, without
\* the whitespace at its two ends
Piece(text, c) ==
  LET next == CHOOSE d \in Cuts(text) : d > c /\ \A e \in Cuts(text) : e > c => d <= e
      inner == {k \in (c + 1) .. (next - 1) : text[k] \notin Ws}
  IN IF inner = {} THEN <<>>
     ELSE LET lo == CHOOSE k \in inner : \A j \in inner : k <= j
              hi == CHOOSE k \in inner : \A j \in inner : j <= k
          IN SubSeq(text, lo, hi)

\* the non-empty trimmed pieces of text, in the order of the text
RECURSIVE PiecesFrom(_, _)
PiecesFrom(text, c) ==
  IF c > Len(text) THEN <<>>
  ELSE LET next == CHOOSE d \in Cuts(text) : d > c /\ \A e \in Cuts(text) : e > c => d <= e
       IN (IF Piece(text, c) = <<>> THEN <<>> ELSE <<Piece(text, c)>>)
            \o PiecesFrom(text, next)

\* C7: a text taken by handle_midpoints is stored as its comma-separated
\* pieces, trimmed, the empty ones dropped, in their order, and when the
\* handler returns the session is in AWAIT_FORECAST_LENGTH, also when no
\* piece is left.
C7_MidpointsSplit ==
  [][/\ \A u \in Updates : handle_midpoints(u, TRUE) /\ u.text # None
          => /\ data'.midpoints = <<PiecesFrom(u.text, 0)>>
             /\ \E t \in Slots : Running(t, "idle") /\ tasks'[t].h = "handle_midpoints"
     /\ \A t \in Slots : Returns(t, "handle_midpoints")
          => state' = "choose_forecast" /\ data' = data]_vars

C7_Witness ==
  /\ last.h = "handle_midpoints"
  /\ state = "choose_forecast"
  /\ data.midpoints = << <<CityP, CityM>> >>

\* C8 as claimed: every message with a text received in AWAIT_START_CITY is
\* stored as start_city, /start and /help too.
C8_EveryTextStored ==
  [][\A u \in Updates :
       u.kind = "message" /\ u.text # None /\ state = "input_start" /\ Dispatch(u, TRUE)
         => data'.start_city = <<u.text>>]_vars

\* C8, amended: every message with a text that is none of the commands
\* /start, /help and /weather, received in AWAIT_START_CITY, is stored
\* unchanged as start_city by handle_start_city, which leaves the session in
\* AWAIT_END_CITY when it returns; a text such as "/x" is one of them.
C8_PlainTextStored ==
  [][/\ \A u \in Updates :
          PlainText(u) /\ state = "input_start" /\ Dispatch(u, TRUE)
            => /\ data' = [data EXCEPT !.start_city = <<u.text>>]
               /\ \E t \in Slots : Running(t, "idle") /\ tasks'[t].h = "handle_start_city"
     /\ \A t \in Slots : Returns(t, "handle_start_city")
          => state' = "input_end" /\ data' = data]_vars

C8_Witness ==
  /\ last.h = "handle_start_city"
  /\ state = "input_end"
  /\ data.start_city = <<TxtSlash>>

\* C9: when a handler has ended by raising, the session is IDLE and holds
\* no data.
C9_ErrorResets ==
  Quiescent /\ last.raised => state = "None" /\ data = EmptyData

\* C10: skip_midpoints stores the empty midpoints and leaves the session in
\* AWAIT_FORECAST_LENGTH; the forecast-length step that follows it
\* aggregates over exactly the start city and the end city, with the day
\* count of the button pressed.
C10_SkipRoute ==
  /\ [](\A t \in Slots : Running(t, "forecast_days_selected") /\ last.h = "skip_midpoints"
          => /\ tasks[t].cities = <<data.start_city[1], data.end_city[1]>>
             /\ data.days = <<tasks[t].days>>)
  /\ [][/\ \A u \in Updates : skip_midpoints(u, TRUE) => data'.midpoints = << <<>> >>
        /\ \A t \in Slots : Returns(t, "skip_midpoints")
             => /\ state' = "choose_forecast"
                /\ data' = data
                /\ data.midpoints = << <<>> >>
        /\ \A u \in Updates : forecast_days_selected(u, TRUE)
             => \E t \in Slots :
                  /\ Running(t, "idle")
                  /\ tasks'[t].days = (IF u.data = "3_days" THEN 3 ELSE 5)]_vars

\* Moscow, Paris, skip, 3 days
C10_Witness ==
  \E t \in Slots :
    /\ At(t, "forecast_days_selected", "location")
    /\ last.h = "skip_midpoints"
    /\ tasks[t].cities = <<CityM, CityP>>
    /\ tasks[t].days = 3

AddPress == [kind |-> "callback_query", text |-> None, data |-> "add_midpoints"]
SkipPress == [kind |-> "callback_query", text |-> None, data |-> "skip_midpoints"]
TextOf(text) == [kind |-> "message", text |-> text, data |-> ""]

\* C11: the press of 'add intermediate stops' in AWAIT_MIDPOINTS sends the
\* prompt for the list and changes neither the state nor the stored fields
\* nor starts anything; until the next update is taken the session is
\* still in AWAIT_MIDPOINTS, where a text goes to handle_midpoints, 'skip' to skip_midpoints and a
\* further 'add' to add_midpoints again.
C11_AddOnlyPrompts ==
  /\ [][\A u \in Updates : u.data = "add_midpoints" /\ state = "input_midpoints"
          /\ Dispatch(u, TRUE)
          => /\ state' = "input_midpoints"
             /\ data' = data
             /\ tasks' = tasks
             /\ last' = Finished("add_midpoints", FALSE, <<"ask_midpoint_list">>)]_vars
  /\ [](last.h = "add_midpoints" /\ Quiescent
          => /\ state = "input_midpoints"
             /\ Handler(TextOf(CityM), state) = "handle_midpoints"
             /\ Handler(SkipPress, state) = "skip_midpoints"
             /\ Handler(AddPress, state) = "add_midpoints")

C11_Witness ==
  /\ last = Finished("add_midpoints", FALSE, <<"ask_midpoint_list">>)
  /\ state = "input_midpoints"
  /\ data.start_city # <<>>
  /\ data.end_city # <<>>

\* C12: the forecast stored for a resolved city whose forecast request
\* succeeds with n entries holds the first min(days, n) of them, as day
\* forecasts in the provider's order, and no stored forecast is longer than
\* days.
C12_Truncation ==
  /\ [](\A t \in Slots : \A k \in 1 .. Len(tasks[t].forecasts) :
          Len(tasks[t].forecasts[k].forecast) <= tasks[t].days)
  /\ [][\A t \in Slots : \A resp \in ForecastResponses :
          generate_forecast_weather(t, resp) /\ ~resp.error /\ resp.status = 200
            => LET new == tasks'[t].forecasts
                   got == new[Len(new)].forecast
               IN /\ Len(new) = Len(tasks[t].forecasts) + 1
                  /\ Len(got) = Smaller(tasks[t].days, resp.n)
                  /\ \A k \in 1 .. Len(got) :
                       /\ got[k].date = <<"d", Digits[k]>>
                       /\ got[k].temperature = <<k, k + 1>>
                       /\ got[k].conditions = "sun"]_vars

\* 5 entries returned, days = 3: the first 3
C12_Witness ==
  \E t \in Slots : \E k \in 1 .. Len(tasks[t].forecasts) :
    /\ tasks[t].days = 3
    /\ Len(tasks[t].forecasts[k].forecast) = 3
    /\ tasks[t].forecasts[k].forecast[3].date = <<"d", "3">>
    /\ ProviderDays = 5

\* the lines of a report between the header of the k-th city and the next
\* header (or the end)
HeaderAt(lines) == {j \in 1 .. Len(lines) : lines[j].kind = "header"}

BlockOf(lines, j) ==
  LET later == {h \in HeaderAt(lines) : h > j}
      stop == IF later = {} THEN Len(lines) + 1
              ELSE CHOOSE h \in later : \A h2 \in later : h <= h2
  IN SubSeq(lines, j + 1, stop - 1)

\* the j-th smallest element of a set of numbers
RECURSIVE Nth(_, _)
Nth(set, j) ==
  LET low == CHOOSE x \in set : \A y \in set : x <= y
  IN IF j = 1 THEN low ELSE Nth(set \ {low}, j - 1)

\* C13: a forecast request answered with a non-success status gives that
\* city the empty forecast list, the aggregation goes on (next city, or the
\* report), and the report that is sent shows that city's header with no
\* day line below it; the failure notice is not sent.
C13_ForecastFailureLocal ==
  /\ [][\A t \in Slots : \A resp \in ForecastResponses :
          generate_forecast_weather(t, resp) /\ ~resp.error /\ resp.status # 200
            => /\ tasks'[t].forecasts =
                    Append(tasks[t].forecasts,
                           [location |-> tasks[t].cities[tasks[t].i], nodata |-> FALSE,
                            forecast |-> <<>>])
               /\ tasks'[t].pc \in {"location", "answer"}
               /\ tasks'[t].pc = "location" => tasks'[t].i = tasks[t].i + 1]_vars
  /\ [](\A t \in Slots : At(t, "forecast_days_selected", "answer")
          => /\ tasks[t].sent = <<"report">>
             /\ Cardinality(HeaderAt(tasks[t].report)) = Len(tasks[t].forecasts)
             /\ \A k \in 1 .. Len(tasks[t].forecasts) :
                  ~tasks[t].forecasts[k].nodata /\ tasks[t].forecasts[k].forecast = <<>>
                    => LET j == Nth(HeaderAt(tasks[t].report), k)
                       IN /\ tasks[t].report[j].city = tasks[t].cities[k]
                          /\ \A line \in {BlockOf(tasks[t].report, j)[x] :
                                          x \in 1 .. Len(BlockOf(tasks[t].report, j))} :
                               line.kind = "blank")

\* the first city's forecast request failed, the second city has its days
C13_Witness ==
  \E t \in Slots :
    /\ At(t, "forecast_days_selected", "answer")
    /\ ~tasks[t].forecasts[1].nodata
    /\ tasks[t].forecasts[1].forecast = <<>>
    /\ Len(tasks[t].forecasts[2].forecast) = tasks[t].days
    /\ tasks[t].sent = <<"report">>

\* the positions in requests of the requests of the given kind for city c
RequestsFor(requests, kind, c) ==
  {j \in 1 .. Len(requests) : requests[j] = <<kind, c>>}

\* C14: in one call of generate_forecast the requests go out one at a time
\* and in the order of the cities: only the last request issued can be
\* waiting for its answer, each city reached has exactly one location request,
\* a city has a forecast request (one, after its location request) exactly
\* when its lookup gave a key, no request of a city follows a request of a
\* later city, and the total is at most twice the number of cities; the
\* answer to a request, failed or not, is never followed by a second request
\* of the same kind for the same city.
C14_SequentialNoRetry ==
  /\ [](\A t \in Slots : Running(t, "forecast_days_selected")
          => LET tk == tasks[t]
                 n == Len(tk.cities)
             IN /\ Len(tk.requests) <= 2 * n
                /\ tk.i \in 1 .. n
                /\ tk.pc \in {"location", "forecast"}
                     => tk.requests[Len(tk.requests)] = <<tk.pc, tk.i>>
                /\ \A j \in 1 .. Len(tk.requests) - 1 :
                     \/ tk.requests[j][2] < tk.requests[j + 1][2]
                     \/ /\ tk.requests[j][2] = tk.requests[j + 1][2]
                        /\ tk.requests[j][1] = "location"
                        /\ tk.requests[j + 1][1] = "forecast"
                /\ \A c \in 1 .. n :
                     /\ Cardinality(RequestsFor(tk.requests, "location", c))
                          = IF c <= tk.i THEN 1 ELSE 0
                     /\ Cardinality(RequestsFor(tk.requests, "forecast", c)) <= 1
                     /\ c <= Len(tk.forecasts)
                          => (RequestsFor(tk.requests, "forecast", c) # {}
                                <=> ~tk.forecasts[c].nodata))
  /\ [][\A t \in Slots :
          Running(t, "forecast_days_selected") /\ Running(t, "forecast_days_selected")'
            => \/ tasks'[t].requests = tasks[t].requests
               \/ \E r \in {<<"forecast", tasks[t].i>>, <<"location", tasks[t].i + 1>>} :
                    /\ tasks'[t].requests = Append(tasks[t].requests, r)
                    /\ r # tasks[t].requests[Len(tasks[t].requests)]]_vars

\* three cities, the lookup of the second gave no key: 3 + 2 requests
C14_Witness ==
  \E t \in Slots :
    /\ At(t, "forecast_days_selected", "answer")
    /\ Len(tasks[t].cities) = 3
    /\ tasks[t].forecasts[2].nodata
    /\ tasks[t].requests = << <<"location", 1>>, <<"forecast", 1>>, <<"location", 2>>,
                              <<"location", 3>>, <<"forecast", 3>> >>

\* C15: the report of format_forecast has one header line per result, in the
\* order of the results and naming the result's city; below the header of a
\* 'no data' result stands the 'data unavailable' line, below the header of
\* a forecast result one line per DayForecast in order, and the rest of the
\* block, up to the next header, is at least one blank line.
C15_ReportShape ==
  \A t \in Slots : At(t, "forecast_days_selected", "answer")
    => LET lines == tasks[t].report
           results == tasks[t].forecasts
       IN /\ Cardinality(HeaderAt(lines)) = Len(results)
          /\ lines # <<>> => lines[1].kind = "header"
          /\ \A k \in 1 .. Len(results) :
               LET j == Nth(HeaderAt(lines), k)
                   block == BlockOf(lines, j)
                   shown == IF results[k].nodata THEN <<UnavailableLine>>
                            ELSE [x \in 1 .. Len(results[k].forecast) |->
                                    DayLine(results[k].forecast[x])]
               IN /\ lines[j] = HeaderLine(results[k].location)
                  /\ Len(block) > Len(shown)
                  /\ SubSeq(block, 1, Len(shown)) = shown
                  /\ \A x \in Len(shown) + 1 .. Len(block) : block[x] = BlankLine

\* a report of three blocks: days, 'data unavailable', days
C15_Witness ==
  \E t \in Slots :
    /\ At(t, "forecast_days_selected", "answer")
    /\ Len(tasks[t].forecasts) = 3
    /\ tasks[t].forecasts[2].nodata
    /\ Len(tasks[t].forecasts[1].forecast) = 3
    /\ Len(tasks[t].forecasts[3].forecast) = ShortDays
    /\ Len(tasks[t].report) = 1 + 3 + 1 + 1 + 1 + 2 + 1 + ShortDays + 1

RouteKeys == {"start_city", "end_city", "midpoints"}

\* C16: whenever the session is in AWAIT_FORECAST_LENGTH the keys start_city,
\* end_city and midpoints are present in the session data.
C16_FieldsSetAtChoice ==
  state = "choose_forecast" => \A key \in RouteKeys : data[key] # <<>>

\* C17: the aggregator has been called at most as often as the start-route
\* command has been received.
C17_OneAggregationPerFlow == credit >= 0

\* C18: when forecast_days_selected takes the route from the session data,
\* start_city, end_city and midpoints have all been written after the most
\* recent start-route command.
C18_NoStaleRoute ==
  [][\A u \in Updates : \A serial \in BOOLEAN :
       forecast_days_selected(u, serial) => RouteKeys \subseteq fresh]_vars

IsCommand(text) ==
  \E name \in {Tail(CmdStart), Tail(CmdHelp), Tail(CmdWeather)} : Command(name, text)

\* the inputs that have no transition in FSM state st
NoTransition(u, st) ==
  \/ /\ u.kind = "message"
     /\ ~IsCommand(u.text)
     /\ st \in {"None", "choose_forecast"}
  \/ u.data \in {"add_midpoints", "skip_midpoints"} /\ st # "input_midpoints"
  \/ u.data \in {"3_days", "5_days"} /\ st # "choose_forecast"
  \/ Command(Tail(CmdStart), u.text)
  \/ Command(Tail(CmdHelp), u.text)

\* C19: the handling of an input that has no transition in the current state
\* (a message that is none of the bot's commands in IDLE or
\* AWAIT_FORECAST_LENGTH, a midpoint button outside AWAIT_MIDPOINTS, a length
\* button outside AWAIT_FORECAST_LENGTH, /start and /help in any state)
\* changes neither the state nor the data, starts no task and is not counted
\* as an aggregation.
C19_NoTransitionFrame ==
  [][\A u \in Updates : NoTransition(u, state) /\ Dispatch(u, TRUE)
       => /\ state' = state
          /\ data' = data
          /\ tasks' = tasks
          /\ credit' = credit
          /\ last'.h \in {"unhandled", "start_command", "help_command"}]_vars

\* a text in AWAIT_FORECAST_LENGTH with the route stored has been dropped
C19_Witness ==
  /\ last.h = "unhandled"
  /\ state = "choose_forecast"
  /\ \A key \in RouteKeys : data[key] # <<>>
  /\ Quiescent

\* C20: if every request returns, a forecast_days_selected that has started
\* the aggregation leads to the session in IDLE with that handler finished
\* and one message (report or failure notice) sent; the loop index only
\* moves forward, one city at a time, and the report is reached with one
\* result per city of the route.
C20_AggregationEnds ==
  /\ (\E t \in Slots : Running(t, "forecast_days_selected"))
       ~> (/\ Quiescent
           /\ state = "None"
           /\ last.h = "forecast_days_selected"
           /\ last.sent \in {<<"report">>, <<"failure">>})
  /\ [][\A t \in Slots :
          Running(t, "forecast_days_selected") /\ Running(t, "forecast_days_selected")'
            => /\ tasks'[t].i \in {tasks[t].i, tasks[t].i + 1}
               /\ tasks'[t].i = tasks[t].i + 1
                    <=> At(t, "forecast_days_selected", "location")']_vars
  /\ [](\A t \in Slots : At(t, "forecast_days_selected", "answer")
          => /\ tasks[t].i = Len(tasks[t].cities)
             /\ Len(tasks[t].forecasts) = Len(tasks[t].cities))

\* the aggregation over three cities has ended with the report
C20_Witness ==
  /\ Quiescent
  /\ state = "None"
  /\ last = Finished("forecast_days_selected", FALSE, <<"report">>)
  /\ progress = 5

====
